---- MODULE Spec2Model ----
(***************************************************************************)
(* Model of the leveled logger of rust-simple-httpd: src/log/mod.rs (the   *)
(* Level enum, the Log record and its Display, the dispatch functions and  *)
(* the level macros) and src/util.rs (enum_with_helpers, the terminal      *)
(* colour policy, the prefix formatter, the width aligner and the hex      *)
(* dump).                                                                  *)
(*                                                                         *)
(* Text is a sequence of one-character strings, so that lengths, padding   *)
(* and ANSI escape bytes are counted as the code counts them.  The escape  *)
(* byte 0x1b is the character "ESC".                                       *)
(***************************************************************************)
EXTENDS Integers, Sequences, FiniteSets, TLC

VARIABLES
  features,       \* the cargo features this build was compiled with
  is_tty_stdout,  \* std::io::stdout().is_terminal()
  is_tty_stderr,  \* std::io::stderr().is_terminal()
  call,           \* the most recent invocation: its arguments and results
  stdout,         \* what the most recent invocation wrote with println!
  stderr          \* what the most recent invocation wrote with eprintln!

vars == <<features, is_tty_stdout, is_tty_stderr, call, stdout, stderr>>

(***************************************************************************)
(* Bounds of the model.                                                    *)
(***************************************************************************)
MaxUsize == 8
MaxTimeLen == 1
MaxTextLen == 1
MaxLen == 17
MaxOffset == 3

(***************************************************************************)
(* Option and Result values.                                               *)
(***************************************************************************)
None == [some |-> FALSE]

Some(v) == [some |-> TRUE, val |-> v]

Ok(v) == [ok |-> TRUE, val |-> v]

Err(e) == [ok |-> FALSE, err |-> e]

Max(a, b) == IF a >= b THEN a ELSE b

Spaces(n) == [i \in 1..n |-> " "]

(***************************************************************************)
(* enum Level, in declaration order (log/mod.rs 6-15).  #[repr(usize)]     *)
(* numbers the variants 0..5 in that order.                                *)
(***************************************************************************)
Variants == <<"Error", "Warn", "Info", "Verb", "Debug", "Trace">>

Level == {Variants[i] : i \in 1..Len(Variants)}

\* `variant as usize`
AsUsize(v) == (CHOOSE i \in 1..Len(Variants) : Variants[i] = v) - 1

\* impl Default
DefaultLevel == "Warn"

\* A wrong from_usize: the ordinals taken one-based.
from_usize_OffByOne(u) ==
  IF \E i \in 1..Len(Variants) : u = AsUsize(Variants[i]) + 1
    THEN Some(Variants[CHOOSE i \in 1..Len(Variants) : u = AsUsize(Variants[i]) + 1])
    ELSE None

\* from_usize: the match arms in declaration order, the first whose guard
\* `x == Variant as usize` holds; `_ => None` otherwise.
from_usize(u) ==
  LET arms == {i \in 1..Len(Variants) : u = AsUsize(Variants[i])}
  IN  IF arms = {}
        THEN None
        ELSE Some(Variants[CHOOSE i \in arms : \A j \in arms : i <= j])

\* impl TryFrom<usize> for Level
try_from_usize(value) ==
  LET val == from_usize(value)
  IN  IF val.some THEN Ok(val.val) ELSE Err("Unknown log level provided")

\* A wrong PartialOrd: the order reversed, the most severe level greatest.
partial_cmp_Reversed(a, b) ==
  IF AsUsize(a) > AsUsize(b) THEN "Less"
  ELSE IF AsUsize(a) < AsUsize(b) THEN "Greater"
  ELSE "Equal"

\* #[derive(PartialOrd, Ord)] on a fieldless enum compares discriminants.
partial_cmp(a, b) ==
  IF AsUsize(a) < AsUsize(b) THEN "Less"
  ELSE IF AsUsize(a) > AsUsize(b) THEN "Greater"
  ELSE "Equal"

lt(a, b) == partial_cmp(a, b) = "Less"

gt(a, b) == partial_cmp(a, b) = "Greater"

le(a, b) == partial_cmp(a, b) \in {"Less", "Equal"}

ge(a, b) == partial_cmp(a, b) \in {"Greater", "Equal"}

\* #[derive(PartialEq)]
eq(a, b) == AsUsize(a) = AsUsize(b)

\* The five comparison operators applied to one pair.
Compare(a, b) ==
  [lt |-> lt(a, b), gt |-> gt(a, b), le |-> le(a, b), ge |-> ge(a, b),
   eq |-> eq(a, b)]

\* format!("{self:?}"): the variant's identifier, character by character.
DebugName(level) ==
  CASE level = "Error" -> <<"E", "r", "r", "o", "r">>
    [] level = "Warn"  -> <<"W", "a", "r", "n">>
    [] level = "Info"  -> <<"I", "n", "f", "o">>
    [] level = "Verb"  -> <<"V", "e", "r", "b">>
    [] level = "Debug" -> <<"D", "e", "b", "u", "g">>
    [] level = "Trace" -> <<"T", "r", "a", "c", "e">>

(***************************************************************************)
(* Configuration: the three fields the logger reads.                       *)
(***************************************************************************)
Config ==
  [log_level : Level, colored_output : BOOLEAN, colored_output_forced : BOOLEAN]

LogFeatures ==
  {"log-err", "log-warn", "log-info", "log-verb", "log-debug", "log-trace"}

AllFeatures == LogFeatures \cup {"color"}

\* The cargo feature that compiles each level's macro body in
\* (#[cfg(feature = ...)] in error!, warn!, info!, verb!, debug!, trace!).
FeatureOf(level) ==
  CASE level = "Error" -> "log-err"
    [] level = "Warn"  -> "log-warn"
    [] level = "Info"  -> "log-info"
    [] level = "Verb"  -> "log-verb"
    [] level = "Debug" -> "log-debug"
    [] level = "Trace" -> "log-trace"

(***************************************************************************)
(* util.rs: the terminal colour policy.                                    *)
(***************************************************************************)
\* A wrong policy: only stdout is asked whether it is a terminal.
enable_terminal_colors_StdoutOnly(config) ==
  IF config.colored_output_forced
    THEN TRUE
    ELSE config.colored_output /\ is_tty_stdout

enable_terminal_colors(config) ==
  IF config.colored_output_forced
    THEN TRUE
    ELSE LET colored_output == config.colored_output
             result == colored_output /\ is_tty_stdout /\ is_tty_stderr
         IN  result

(***************************************************************************)
(* util.rs: the width aligner.  width is f.width(), None or Some(w);        *)
(* alignment is f.align(): NoAlign, "Left", "Right" or "Center".           *)
(***************************************************************************)
NoAlign == "None"

\* format!("{value:<w$}"), "{value:>w$}", "{value:^w$}" on a string.
Pad(value, width, alignment) ==
  LET padding == Max(0, width - Len(value))
  IN  CASE alignment = "Left"   -> value \o Spaces(padding)
        [] alignment = "Right"  -> Spaces(padding) \o value
        [] alignment = "Center" ->
             Spaces(padding \div 2) \o value \o Spaces((padding + 1) \div 2)

format_with_options(value, width, alignment) ==
  IF width.some
    THEN Pad(value, width.val, IF alignment = NoAlign THEN "Left" ELSE alignment)
    ELSE value

\* impl fmt::Display for Level, as to_string() calls it: no width requested.
LevelToString(level) == format_with_options(DebugName(level), None, NoAlign)

(***************************************************************************)
(* The colour subsystem (crate::color) wraps a text in one fixed-length    *)
(* ANSI escape pair and reports the number of escape bytes it added.       *)
(***************************************************************************)
ColorDigit(color) ==
  CASE color = "red"     -> "1"
    [] color = "green"   -> "2"
    [] color = "yellow"  -> "3"
    [] color = "blue"    -> "4"
    [] color = "magenta" -> "5"
    [] color = "cyan"    -> "6"

Colorize(text, color) ==
  LET open  == <<"ESC", "[", "3", ColorDigit(color), "m">>
      close == <<"ESC", "[", "0", "m">>
  IN  [text |-> open \o text \o close,
       color_code_length |-> Len(open) + Len(close)]

log_level_to_string_colorized(level) ==
  LET level_text == LevelToString(level)
  IN  CASE level = "Error" -> Colorize(level_text, "red")
        [] level = "Warn"  -> Colorize(level_text, "yellow")
        [] level = "Info"  -> Colorize(level_text, "green")
        [] level = "Verb"  -> Colorize(level_text, "magenta")
        [] level = "Debug" -> Colorize(level_text, "blue")
        [] level = "Trace" -> Colorize(level_text, "cyan")

(***************************************************************************)
(* util.rs: the prefix formatter.                                          *)
(***************************************************************************)
ColorLevelWidth == 14

PlainLevelWidth == 5

format_log_message_prefix(time, level, contains_ansi_color) ==
  IF contains_ansi_color
    THEN <<"[">> \o time \o <<" ">> \o Pad(level, ColorLevelWidth, "Left")
           \o <<"]", ":", " ">>
    ELSE <<"[">> \o time \o <<" ">> \o Pad(level, PlainLevelWidth, "Left")
           \o <<"]", ":", " ">>

\* new_time_string(): the clock's reading as text.  Only its length matters
\* here; it is empty when formatting fails (unwrap_or_default).
Times == {[i \in 1..n |-> "t"] : n \in 0..MaxTimeLen}

Texts == {[i \in 1..n |-> "m"] : n \in 0..MaxTextLen}

(***************************************************************************)
(* log/mod.rs: the Log record and its Display.                             *)
(***************************************************************************)
\* Log::new, with the reading of the clock it takes.
LogNew(config, text, level, time) ==
  [config |-> config, message |-> text, level |-> level, time |-> time]

\* The level text and the padding mode Display hands to
\* format_log_message_prefix: lines 69-75 with feature "color", lines 87-91
\* without it.
LogPrefixArgs(log) ==
  IF "color" \in features
    THEN [level_text |->
            IF log.config.colored_output
              THEN log_level_to_string_colorized(log.level).text
              ELSE LevelToString(log.level),
          contains_ansi_color |-> TRUE]
    ELSE [level_text |-> LevelToString(log.level),
          contains_ansi_color |-> FALSE]

\* impl fmt::Display for Log
LogFmt(log, width, alignment) ==
  LET a == LogPrefixArgs(log)
      log_message_prefix ==
        format_log_message_prefix(log.time, a.level_text, a.contains_ansi_color)
      log_message == log_message_prefix \o log.message
  IN  format_with_options(log_message, width, alignment)

find_tty_and_update_from(config) ==
  IF ~enable_terminal_colors(config)
    THEN [config EXCEPT !.colored_output = FALSE]
    ELSE config

(***************************************************************************)
(* log/mod.rs: the dispatch functions error, warn, info, verb, debug and   *)
(* trace.  They differ in the level they build the Log with and in the     *)
(* stream they print to.                                                   *)
(***************************************************************************)
\* A wrong stream choice: every level to standard error.
StreamOf_AllStderr(level) == "stderr"

\* println! in info, eprintln! in the other five.
StreamOf(level) == IF level = "Info" THEN "stdout" ELSE "stderr"

\* The body of a dispatch function: what it builds and the line it prints.
Dispatch(level, config, text, time) ==
  LET cfg == find_tty_and_update_from(config)
      log == LogNew(cfg, text, level, time)
      formatted_message == LogFmt(log, None, NoAlign)
  IN  [log |-> log,
       formatted_message |-> formatted_message,
       stream |-> StreamOf(level),
       written |-> formatted_message \o <<"\n">>]

\* A wrong gate: the operands of >= exchanged.
MacroGate_Swapped(config, level) == ge(level, config.log_level)

\* The run-time gate of a level macro: `$config.log_level >= Level::X`.
MacroGate(config, level) == ge(config.log_level, level)

(***************************************************************************)
(* Builds and environments.  A build omits at most MaxOmitted features.    *)
(***************************************************************************)
MaxOmitted == 2

Builds == {F \in SUBSET AllFeatures : Cardinality(AllFeatures \ F) <= MaxOmitted}

Idle == [op |-> "none"]

\* The invocation returns to its caller, which goes on to the next one; the
\* program is single-threaded, so invocations never overlap.
Return ==
  /\ call # Idle
  /\ call' = Idle
  /\ stdout' = <<>>
  /\ stderr' = <<>>
  /\ UNCHANGED <<features, is_tty_stdout, is_tty_stderr>>

(***************************************************************************)
(* The Level type on its own: conversions and comparisons.                 *)
(***************************************************************************)
InitLevel ==
  /\ features = AllFeatures
  /\ is_tty_stdout = FALSE
  /\ is_tty_stderr = FALSE
  /\ call = Idle
  /\ stdout = <<>>
  /\ stderr = <<>>

\* Level::from_usize(u) and Level::try_from(u)
CallFromUsize ==
  \E u \in 0..MaxUsize :
    /\ call = Idle
    /\ call' = [op |-> "from_usize", u |-> u, result |-> from_usize(u),
                try_from |-> try_from_usize(u)]
    /\ UNCHANGED <<features, is_tty_stdout, is_tty_stderr, stdout, stderr>>

\* Level::from_usize(v as usize)
CallRoundTrip ==
  \E v \in Level :
    /\ call = Idle
    /\ call' = [op |-> "round_trip", v |-> v, result |-> from_usize(AsUsize(v))]
    /\ UNCHANGED <<features, is_tty_stdout, is_tty_stderr, stdout, stderr>>

\* The comparison operators on three levels, pair by pair.
CallCompare ==
  \E a \in Level, b \in Level, c \in Level :
    /\ call = Idle
    /\ call' = [op |-> "compare", a |-> a, b |-> b, c |-> c,
                ab |-> Compare(a, b), ba |-> Compare(b, a),
                bc |-> Compare(b, c), ac |-> Compare(a, c)]
    /\ UNCHANGED <<features, is_tty_stdout, is_tty_stderr, stdout, stderr>>

NextLevel == CallFromUsize \/ CallRoundTrip \/ CallCompare \/ Return

SpecLevel == InitLevel /\ [][NextLevel]_vars

(***************************************************************************)
(* The logger: the macros, the dispatch functions and the colour policy.   *)
(***************************************************************************)
InitLog ==
  /\ features \in Builds
  /\ is_tty_stdout \in BOOLEAN
  /\ is_tty_stderr \in BOOLEAN
  /\ call = Idle
  /\ stdout = <<>>
  /\ stderr = <<>>

\* What a dispatch function leaves behind: the record of the call and the
\* line on the stream it printed to.
Emit(op, level, config, text, time) ==
  LET d == Dispatch(level, config, text, time)
  IN  /\ call' = [op |-> op, level |-> level, config |-> config, text |-> text,
                  emitted |-> TRUE, log |-> d.log,
                  formatted_message |-> d.formatted_message]
      /\ stdout' = IF d.stream = "stdout" THEN <<d.written>> ELSE <<>>
      /\ stderr' = IF d.stream = "stderr" THEN <<d.written>> ELSE <<>>

\* error(config, text), warn(..), info(..), verb(..), debug(..), trace(..)
CallDispatch ==
  \E level \in Level, config \in Config, text \in Texts, time \in Times :
    /\ call = Idle
    /\ Emit("dispatch", level, config, text, time)
    /\ UNCHANGED <<features, is_tty_stdout, is_tty_stderr>>

\* error!(config, ..), warn!(..), info!(..), verb!(..), debug!(..), trace!(..)
CallMacro ==
  \E level \in Level, config \in Config, text \in Texts :
    /\ call = Idle
    /\ IF FeatureOf(level) \in features /\ MacroGate(config, level)
         THEN \E time \in Times : Emit("macro", level, config, text, time)
         ELSE /\ call' = [op |-> "macro", level |-> level, config |-> config,
                          text |-> text, emitted |-> FALSE]
              /\ stdout' = <<>>
              /\ stderr' = <<>>
    /\ UNCHANGED <<features, is_tty_stdout, is_tty_stderr>>

\* util::enable_terminal_colors(config)
CallEnableTerminalColors ==
  \E config \in Config :
    /\ call = Idle
    /\ call' = [op |-> "enable_terminal_colors", config |-> config,
                result |-> enable_terminal_colors(config)]
    /\ stdout' = <<>>
    /\ stderr' = <<>>
    /\ UNCHANGED <<features, is_tty_stdout, is_tty_stderr>>

Next == CallDispatch \/ CallMacro \/ CallEnableTerminalColors \/ Return

Spec == InitLog /\ [][Next]_vars

(***************************************************************************)
(* util.rs: the hex dump of a byte buffer (feature "log-trace").           *)
(***************************************************************************)
Digit(d) == <<"0", "1", "2", "3", "4", "5", "6", "7", "8", "9">>[d + 1]

\* n.to_string() of a usize
RECURSIVE to_string(_)
to_string(n) ==
  IF n < 10 THEN <<Digit(n)>> ELSE to_string(n \div 10) \o <<Digit(n % 10)>>

num_digits(n) == Len(to_string(n))

\* format!("{byte:02x}")
LowerHex2(byte) ==
  LET x == <<"0", "1", "2", "3", "4", "5", "6", "7", "8", "9",
             "a", "b", "c", "d", "e", "f">>
  IN  <<x[(byte \div 16) + 1], x[(byte % 16) + 1]>>

CR == 13

LF == 10

\* write_formatted_eol_byte: lines 74-101 with feature "color", lines
\* 105-120 without it.
write_formatted_eol_byte(byte, config) ==
  LET replacement == IF byte = CR THEN <<"\\", "r">> ELSE <<"\\", "n">>
  IN  IF byte \in {CR, LF}
        THEN IF "color" \in features /\ enable_terminal_colors(config)
               THEN Colorize(replacement, "yellow").text
               ELSE replacement
        ELSE LowerHex2(byte)

\* A wrong width: the digits of the last index, index_offset + len - 1.
IndexWidth_LastIndex(vec, index_offset) == num_digits(index_offset + Len(vec) - 1)

\* let digits = num_digits(index_offset + vec.len());
IndexWidth(vec, index_offset) == num_digits(index_offset + Len(vec))

\* format!("{current_index:digits$}"): a number is right-aligned in its
\* width and the fill is the space.
FormatIndex(current_index, digits) == Pad(to_string(current_index), digits, "Right")

\* format_log_message_prefix_length: lines 250-255 with feature "color",
\* lines 257-262 without it.
HexPrefixLength(config, time) ==
  IF "color" \in features
    THEN LET colorized_text == log_level_to_string_colorized("Trace")
             prefix == format_log_message_prefix(time, colorized_text.text,
                                                 config.colored_output)
         IN  Len(prefix) - colorized_text.color_code_length
    ELSE LET text == LevelToString("Trace")
             prefix == format_log_message_prefix(time, text, FALSE)
         IN  Len(prefix)

GroupSize == 8

\* A wrong group test: the header after every eighth byte instead of before.
IsGroupStart_AfterEighth(index) == (index + 1) % GroupSize = 0

\* if index % 8 == 0
IsGroupStart(index) == index % GroupSize = 0

\* One piece of text appended to the output, tagged with what it is.
Seg(kind, text) == [kind |-> kind, text |-> text]

\* The pieces one iteration of the loop appends for the byte at `index`
\* (zero-based).
HexIteration(index, byte, index_offset, digits, prefix_length, config) ==
  (IF index # 0 THEN <<Seg("sep", <<" ">>)>> ELSE <<>>)
  \o (IF IsGroupStart(index)
        THEN LET current_index == index + index_offset
             IN  <<Seg("newline", <<"\n">>),
                   Seg("indent", Spaces(prefix_length)),
                   Seg("index", FormatIndex(current_index, digits)
                                  \o <<" ", "=", " ">>)>>
        ELSE <<>>)
  \o <<Seg("byte", write_formatted_eol_byte(byte, config))>>

\* Everything highlighted_hex_vec appends to `output`, in order, `time`
\* being the reading of the clock new_time_string() returns.
HexSegments(vec, index_offset, config, time) ==
  LET digits == IndexWidth(vec, index_offset)
      prefix_length == HexPrefixLength(config, time)
      acc[k \in 0..Len(vec)] ==
        IF k = 0
          THEN <<Seg("open", <<"[">>)>>
          ELSE acc[k - 1] \o HexIteration(k - 1, vec[k], index_offset, digits,
                                          prefix_length, config)
  IN  acc[Len(vec)]

Flatten(segments) ==
  LET acc[k \in 0..Len(segments)] ==
        IF k = 0 THEN <<>> ELSE acc[k - 1] \o segments[k].text
  IN  acc[Len(segments)]

highlighted_hex_vec(vec, index_offset, config, time) ==
  Flatten(HexSegments(vec, index_offset, config, time))

\* Byte buffers: the first n bytes of a repeating pattern of CR, LF, 'A'
\* and 0xff.
BytePatterns == {<<13, 10, 65, 255>>, <<65, 13, 255, 10>>, <<255, 65, 10, 13>>}

Vecs ==
  {[i \in 1..n |-> pat[((i - 1) % Len(pat)) + 1]] :
     n \in 0..MaxLen, pat \in BytePatterns}

\* The dump is made by trace-level callers.
HexConfigs == {c \in Config : c.log_level = "Trace"}

InitHex ==
  /\ features \in {LogFeatures \cup c : c \in SUBSET {"color"}}
  /\ is_tty_stdout \in BOOLEAN
  /\ is_tty_stderr \in BOOLEAN
  /\ call = Idle
  /\ stdout = <<>>
  /\ stderr = <<>>

\* util::highlighted_hex_vec(vec, index_offset, config)
CallHighlightedHexVec ==
  \E vec \in Vecs, index_offset \in 0..MaxOffset, config \in HexConfigs,
     time \in Times :
    /\ call = Idle
    /\ call' = [op |-> "highlighted_hex_vec", vec |-> vec,
                index_offset |-> index_offset, config |-> config,
                time |-> time,
                segments |-> HexSegments(vec, index_offset, config, time),
                output |-> highlighted_hex_vec(vec, index_offset, config, time)]
    /\ UNCHANGED <<features, is_tty_stdout, is_tty_stderr, stdout, stderr>>

NextHex == CallHighlightedHexVec \/ Return

SpecHex == InitHex /\ [][NextHex]_vars


(***************************************************************************)
(* Properties.                                                             *)
(***************************************************************************)
\* The levels from the most to the least severe.
SeverityChain == <<"Error", "Warn", "Info", "Verb", "Debug", "Trace">>

ChainPos(l) == CHOOSE i \in 1..Len(SeverityChain) : SeverityChain[i] = l

\* Greater is more severe.
Severity(l) == Len(SeverityChain) - ChainPos(l)

Adjacent(a, b) == ChainPos(b) = ChainPos(a) + 1

Written == Len(stdout) + Len(stderr)

\* A dispatch function ran, called directly or by a macro whose gates passed.
Dispatched == call.op \in {"dispatch", "macro"} /\ call.emitted

HasAnsi(text) == \E i \in 1..Len(text) : text[i] = "ESC"

\* C1: a level macro writes a line if and only if the level's feature is
\* compiled in and the level is at least as severe as config.log_level;
\* otherwise it writes nothing.  Info under threshold Warn writes nothing,
\* and Error, when compiled in, writes under every threshold.
C1_MacroWritesIffGated ==
  call.op = "macro" =>
    LET L == call.level
        T == call.config.log_level
    IN  /\ Written \in {0, 1}
        /\ (Written = 1) <=>
             (FeatureOf(L) \in features /\ Severity(L) >= Severity(T))
        /\ call.emitted <=> (Written = 1)
        /\ (L = "Info" /\ T = "Warn") => Written = 0
        /\ (L = "Error" /\ "log-err" \in features) => Written = 1

C1_Witness ==
  /\ call.op = "macro"
  /\ call.level = "Verb"
  /\ call.config.log_level = "Debug"
  /\ call.emitted
  /\ Len(stderr) = 1

\* C2 as stated: the comparison operators form a total, transitive order in
\* which Error > Warn > Info > Verb > Debug > Trace holds for every adjacent
\* pair.
C2_Original ==
  call.op = "compare" =>
    /\ (call.ab.lt /\ call.bc.lt) => call.ac.lt
    /\ Adjacent(call.a, call.b) => call.ab.gt

\* C2 amended: the comparison operators form a total, transitive order by
\* ordinal, in which Error < Warn < Info < Verb < Debug < Trace: the more
\* severe level is the smaller one.
C2_OrderByOrdinal ==
  call.op = "compare" =>
    LET ab == call.ab
    IN  /\ Cardinality({x \in {"lt", "eq", "gt"} : ab[x]}) = 1
        /\ ab.le <=> (ab.lt \/ ab.eq)
        /\ ab.ge <=> (ab.gt \/ ab.eq)
        /\ ab.eq <=> (call.a = call.b)
        /\ ab.lt <=> call.ba.gt
        /\ (ab.lt /\ call.bc.lt) => call.ac.lt
        /\ (ab.le /\ call.bc.le) => call.ac.le
        /\ Adjacent(call.a, call.b) => (ab.lt /\ ~ab.gt)
        /\ (Severity(call.a) > Severity(call.b)) => ab.lt

C2_Witness ==
  /\ call.op = "compare"
  /\ call.a = "Error" /\ call.b = "Warn" /\ call.c = "Info"
  /\ call.ab.lt /\ call.bc.lt /\ call.ac.lt

\* C3: each call of a dispatch function writes exactly one line to exactly
\* one stream: standard output for Info, standard error for every other
\* level, and nothing to the other stream.
C3_OneLineOneStream ==
  Dispatched =>
    LET line == call.formatted_message \o <<"\n">>
    IN  IF call.level = "Info"
          THEN stdout = <<line>> /\ stderr = <<>>
          ELSE stderr = <<line>> /\ stdout = <<>>

C3_Witness ==
  /\ call.op = "dispatch"
  /\ call.level = "Info"
  /\ Len(stdout) = 1
  /\ Len(stderr) = 0

\* C4: enable_terminal_colors returns true when colored_output_forced is
\* true, whatever colored_output and the terminals are, and otherwise
\* exactly colored_output AND stdout-is-terminal AND stderr-is-terminal.
C4_ColorPolicy ==
  call.op = "enable_terminal_colors" =>
    /\ call.config.colored_output_forced => call.result = TRUE
    /\ ~call.config.colored_output_forced =>
         call.result =
           (call.config.colored_output /\ is_tty_stdout /\ is_tty_stderr)

C4_Witness ==
  /\ call.op = "enable_terminal_colors"
  /\ call.config.colored_output_forced
  /\ ~call.config.colored_output
  /\ ~is_tty_stdout
  /\ ~is_tty_stderr
  /\ call.result = TRUE

\* C5 as stated, for builds with the colour feature: the line of a dispatch
\* function renders the level colorized exactly when
\* enable_terminal_colors resolves to true for the caller's configuration,
\* and plain exactly when it resolves to false.
C5_Original ==
  (Dispatched /\ "color" \in features) =>
    (HasAnsi(call.formatted_message) <=> enable_terminal_colors(call.config))

\* C6 as stated: the level field of a rendered Record is padded to 5
\* characters whenever the level text is plain and to 14 whenever it is
\* colorized, and the padding mode passed to format_log_message_prefix
\* matches whether the level text contains colour codes.
C6_Original ==
  Dispatched =>
    LET a == LogPrefixArgs(call.log)
        field == Len(call.formatted_message) - Len(call.text)
                   - Len(call.log.time) - Len(<<"[", " ", "]", ":", " ">>)
    IN  /\ a.contains_ansi_color <=> HasAnsi(a.level_text)
        /\ field = IF HasAnsi(call.formatted_message) THEN 14 ELSE 5

\* C7: from_usize round-trips with the ordinal: from_usize(v as usize) is
\* Some(v); for n in 0..5 it is the variant of ordinal n; for n >= 6 it is
\* None and TryFrom<usize> is Err("Unknown log level provided").
C7_FromUsizeRoundTrip ==
  /\ call.op = "round_trip" => call.result = Some(call.v)
  /\ call.op = "from_usize" =>
       IF call.u <= 5
         THEN /\ call.result = Some(SeverityChain[call.u + 1])
              /\ call.try_from = Ok(SeverityChain[call.u + 1])
         ELSE /\ call.result = None
              /\ call.try_from = Err("Unknown log level provided")

C7_Witness ==
  /\ call.op = "from_usize"
  /\ call.u = 6
  /\ call.result = None

\* The value of a text of decimal digits.
DecimalValue(text) ==
  LET v[k \in 0..Len(text)] ==
        IF k = 0
          THEN 0
          ELSE 10 * v[k - 1]
                 + (CHOOSE d \in 0..9 :
                      <<"0", "1", "2", "3", "4", "5", "6", "7", "8", "9">>[d + 1]
                        = text[k])
  IN  v[Len(text)]

IsDigits(text) ==
  /\ Len(text) > 0
  /\ \A i \in 1..Len(text) :
       text[i] \in {"0", "1", "2", "3", "4", "5", "6", "7", "8", "9"}

\* The number of decimal digits of n.
DigitCount(n) == CHOOSE d \in 1..10 : (n < 10 ^ d) /\ (d = 1 \/ n >= 10 ^ (d - 1))

HexCalled == call.op = "highlighted_hex_vec"

SegsOfKind(kind) ==
  {j \in 1..Len(call.segments) : call.segments[j].kind = kind}

\* The number of bytes rendered before piece j: the position of the byte
\* that piece j renders or introduces.
BytesBefore(j) == Cardinality({i \in SegsOfKind("byte") : i < j})

\* The index field of header piece j: its text without the closing " = ".
IndexField(j) ==
  SubSeq(call.segments[j].text, 1, Len(call.segments[j].text) - 3)

\* C8 as stated: the index at the start of each group is index_offset +
\* index, zero-padded to the number of decimal digits of the final index,
\* index_offset + len - 1.
C8_Original ==
  (HexCalled /\ Len(call.vec) > 0) =>
    \A j \in SegsOfKind("index") :
      /\ IsDigits(IndexField(j))
      /\ DecimalValue(IndexField(j)) = call.index_offset + BytesBefore(j)
      /\ Len(IndexField(j)) = DigitCount(call.index_offset + Len(call.vec) - 1)

\* C8 amended: the index at the start of each group is index_offset +
\* index, right-aligned and padded with spaces to the number of decimal
\* digits of index_offset + len, and followed by " = ".
C8_IndexSpacePadded ==
  (HexCalled /\ Len(call.vec) > 0) =>
    \A j \in SegsOfKind("index") :
      LET field == IndexField(j)
          text == call.segments[j].text
      IN  /\ SubSeq(text, Len(text) - 2, Len(text)) = <<" ", "=", " ">>
          /\ Len(field) = DigitCount(call.index_offset + Len(call.vec))
          /\ \E p \in 0..(Len(field) - 1) :
               /\ \A i \in 1..p : field[i] = " "
               /\ IsDigits(SubSeq(field, p + 1, Len(field)))
               /\ DecimalValue(SubSeq(field, p + 1, Len(field)))
                    = call.index_offset + BytesBefore(j)
               /\ Len(field) - p = DigitCount(call.index_offset + BytesBefore(j))

C8_Witness ==
  /\ HexCalled
  /\ call.index_offset = 0
  /\ Len(call.vec) = 10
  /\ \E j \in SegsOfKind("index") :
       call.segments[j].text = <<" ", "8", " ", "=", " ">>

\* C9: the dump begins with "[", has exactly ceil(n/8) group headers
\* (newline, indentation, index, " = "), one immediately before each byte
\* whose position is a multiple of 8 and none elsewhere, renders the bytes
\* in input order, and ends without a closing bracket or a newline; for the
\* empty sequence it is exactly "[".
C9_DumpLayout ==
  HexCalled =>
    LET segs == call.segments
        out == call.output
        n == Len(call.vec)
        groups == (n + 7) \div 8
    IN  /\ out = Flatten(segs)
        /\ Head(out) = "["
        /\ segs[1] = Seg("open", <<"[">>)
        /\ SegsOfKind("open") = {1}
        /\ n = 0 => out = <<"[">>
        /\ out[Len(out)] \notin {"]", "\n"}
        /\ Cardinality({i \in 1..Len(out) : out[i] = "\n"}) = groups
        /\ Cardinality(SegsOfKind("byte")) = n
        /\ \A j \in SegsOfKind("byte") :
             /\ segs[j].text
                  = write_formatted_eol_byte(call.vec[BytesBefore(j) + 1],
                                             call.config)
             /\ BytesBefore(j) % 8 = 0 =>
                  (j > 3 /\ segs[j - 3].kind = "newline")
             /\ BytesBefore(j) > 0 =>
                  segs[IF BytesBefore(j) % 8 = 0 THEN j - 4 ELSE j - 1]
                    = Seg("sep", <<" ">>)
        /\ Cardinality(SegsOfKind("newline")) = groups
        /\ Cardinality(SegsOfKind("sep")) = IF n = 0 THEN 0 ELSE n - 1
        /\ \A j \in SegsOfKind("newline") :
             /\ segs[j].text = <<"\n">>
             /\ BytesBefore(j) % 8 = 0
             /\ j + 3 <= Len(segs)
             /\ segs[j + 1].kind = "indent"
             /\ \A i \in 1..Len(segs[j + 1].text) : segs[j + 1].text[i] = " "
             /\ segs[j + 2].kind = "index"
             /\ segs[j + 3].kind = "byte"
        /\ Len(segs) = 1 + n + Cardinality(SegsOfKind("sep")) + 3 * groups

C9_Witness ==
  /\ HexCalled
  /\ Len(call.vec) = 17
  /\ Cardinality(SegsOfKind("index")) = 3
  /\ call.segments[Len(call.segments) - 3].kind = "newline"

\* The number of characters of a text that show on a terminal: those
\* outside the escape sequences ESC [ ... m.
VisibleLen(text) ==
  LET f[i \in 0..Len(text)] ==
        IF i = 0
          THEN [esc |-> FALSE, n |-> 0]
          ELSE IF f[i - 1].esc
                 THEN [esc |-> text[i] # "m", n |-> f[i - 1].n]
                 ELSE IF text[i] = "ESC"
                        THEN [esc |-> TRUE, n |-> f[i - 1].n]
                        ELSE [esc |-> FALSE, n |-> f[i - 1].n + 1]
  IN  f[Len(text)].n

\* C10 as stated: the indentation at the start of each group has the
\* visible length of the prefix that a Trace-level Record rendered with the
\* same configuration and the same timestamp produces.
C10_Original ==
  HexCalled =>
    LET record == LogNew(call.config, <<>>, "Trace", call.time)
        prefix == LogFmt(record, None, NoAlign)
    IN  \A j \in SegsOfKind("indent") :
          Len(call.segments[j].text) = VisibleLen(prefix)

====
